---- MODULE Spec2Model ----
(***************************************************************************)
(* A model of rust/lancedb-ffi/src/lib.rs: the LanceDBHandle operations    *)
(* store, search, delete, list and clear over the on-disk store.           *)
(*                                                                         *)
(* The handle holds no mutable state (db_path, embedding_dim); all mutable *)
(* state is the store directory: the default table "memories" (absent,     *)
(* readable, or present but unreadable) with its rows in append order, and *)
(* whether another named table exists.  Every handler is an async fn; it   *)
(* is modelled as one step per awaited engine call, because other callers  *)
(* scheduled on the runtime can run between two awaits.  Every engine call *)
(* may fail (parameter fail of its step).                                  *)
(***************************************************************************)
EXTENDS Integers, Sequences, FiniteSets, TLC

\* ------------------------------------------------------------------ bounds

\* The most rows the default table holds in the model.
MaxRows == 3
\* The largest result limit a caller passes to search and list.
MaxLimit == 2
\* The handle's embedding_dim.
Dim == 2
\* The longest key or prefix the predicate strings are checked for.
MaxKeyLen == 3

\* ------------------------------------------------------- program constants

\* worker_threads(2): the calls that run in parallel on the runtime.
WorkerThreads == 2

DEFAULT_TABLE == "memories"
\* The db_path of the handle the calls are made on, and another path.
DB_PATH == "db"
OTHER_PATH == "db2"
Paths == { DB_PATH, OTHER_PATH }
\* A collection name other than the default one (an argument of clear).
OTHER_TABLE == "other"

Callers == 1 .. WorkerThreads

\* With one call at a time it does not matter which worker runs it.
Main == CHOOSE p \in Callers : TRUE

\* ------------------------------------------------------------------- data

Quote == "'"

\* Keys are sequences of characters; one holds a single quote.
Keys == { <<"a">>, <<"a", Quote>> }

\* Every string of at most MaxKeyLen characters over a letter and the quote.
KeyChars == { "a", Quote }
AllKeys == UNION { [1 .. n -> KeyChars] : n \in 0 .. MaxKeyLen }

\* Option<T> is a sequence of length at most one.
None == << >>
Some(x) == << x >>

Unit(i) == [j \in 1 .. Dim |-> IF j = i THEN 1 ELSE 0]

\* (text, embedding, metadata) of a store call with an embedding of the
\* configured length.
Payloads ==
  { [text |-> "original", embedding |-> Unit(1), metadata |-> None],
    [text |-> "updated", embedding |-> Unit(2), metadata |-> Some("m")] }

\* Payloads whose embedding is one shorter or one longer than embedding_dim.
BadPayloads ==
  { [text |-> "original", embedding |-> [j \in 1 .. Dim - 1 |-> 1], metadata |-> None],
    [text |-> "updated", embedding |-> [j \in 1 .. Dim + 1 |-> 1], metadata |-> None] }

\* StringArray::from(Vec<Option<String>>): a cell of the nullable metadata
\* column.  A null cell has the empty string as its value.
MetadataCell(m) ==
  [null |-> m = None, value |-> IF m = None THEN "" ELSE m[1]]

\* A variant of MetadataOf: the cell's value is returned without the null check.
MetadataOfValueOnly(cell) == Some(cell.value)

\* The decoding of a metadata cell in search: None when the cell is null.
MetadataOf(cell) == IF cell.null THEN None ELSE Some(cell.value)

\* A row of the table.  agent_id and created_at are written too but no
\* operation returns them.
Row(k, pl) ==
  [key |-> k, text |-> pl.text, embedding |-> pl.embedding,
   metadata |-> MetadataCell(pl.metadata)]

Rows == { Row(k, pl) : k \in Keys, pl \in Payloads }

\* LanceError
Ok == [kind |-> "Ok", keys |-> << >>, hits |-> << >>, handle |-> None]
Err(kind) == [kind |-> kind, keys |-> << >>, hits |-> << >>, handle |-> None]

\* ----------------------------------------------------- predicate strings

\* A variant of Escape: the text is interpolated as it is.
EscapeNothing(s) == s

RECURSIVE Escape(_)
\* key.replace('\'', "''")
Escape(s) ==
  IF s = << >> THEN << >>
  ELSE (IF Head(s) = Quote THEN <<Quote, Quote>> ELSE <<Head(s)>>) \o Escape(Tail(s))

\* format!("key = '{}'", ...): the text after the opening quote.
KeyPredicate(k) == [fn |-> "eq", text |-> Escape(k) \o <<Quote>>]

\* format!("starts_with(key, '{}')", ...): the text after the opening quote.
PrefixPredicate(p) == [fn |-> "starts_with", text |-> Escape(p) \o <<Quote>>]

RECURSIVE EngineLiteral(_)
\* The engine's reading of a string literal from the character after its
\* opening quote: '' is one quote, a single ' ends the literal, and nothing
\* may follow it.
EngineLiteral(s) ==
  IF s = << >> THEN [ok |-> FALSE, val |-> << >>]
  ELSE IF Head(s) # Quote
    THEN LET r == EngineLiteral(Tail(s))
         IN [ok |-> r.ok, val |-> <<Head(s)>> \o r.val]
  ELSE IF Len(s) >= 2 /\ s[2] = Quote
    THEN LET r == EngineLiteral(Tail(Tail(s)))
         IN [ok |-> r.ok, val |-> <<Quote>> \o r.val]
  ELSE [ok |-> Len(s) = 1, val |-> << >>]

IsPrefix(p, s) == Len(p) <= Len(s) /\ SubSeq(s, 1, Len(p)) = p

PredicateOk(pred) == EngineLiteral(pred.text).ok

\* Whether a row satisfies a well-formed predicate.
Matches(pred, row) ==
  LET lit == EngineLiteral(pred.text).val
  IN IF pred.fn = "eq" THEN row.key = lit ELSE IsPrefix(lit, row.key)

\* ------------------------------------------------------- engine, as called

\* A variant of DeleteRows: the delete leaves no row.
DeleteEveryRow(rs, pred) == << >>

\* table.delete(predicate): the rows that stay.
DeleteRows(rs, pred) ==
  LET Stays(r) == ~Matches(pred, r)
  IN SelectSeq(rs, Stays)

\* Squared L2 distance, the engine's default metric.
RECURSIVE SqDist(_, _)
SqDist(q, e) ==
  IF q = << >> \/ e = << >> THEN 0
  ELSE (Head(q) - Head(e)) * (Head(q) - Head(e)) + SqDist(Tail(q), Tail(e))

\* The index of the nearest row; of the first such row on a tie.
Nearest(rs, q) ==
  CHOOSE i \in 1 .. Len(rs) :
    \A j \in 1 .. Len(rs) :
      \/ SqDist(q, rs[i].embedding) < SqDist(q, rs[j].embedding)
      \/ SqDist(q, rs[i].embedding) = SqDist(q, rs[j].embedding) /\ i <= j

RemoveAt(rs, i) == SubSeq(rs, 1, i - 1) \o SubSeq(rs, i + 1, Len(rs))

RECURSIVE Ranked(_, _)
\* The rows in ascending distance from q, ties in row order.
Ranked(rs, q) ==
  IF rs = << >> THEN << >>
  ELSE LET i == Nearest(rs, q) IN <<rs[i]>> \o Ranked(RemoveAt(rs, i), q)

Take(s, n) == SubSeq(s, 1, IF n < Len(s) THEN n ELSE Len(s))

Filtered(rs, filter) ==
  IF filter = None THEN rs
  ELSE LET Keep(r) == Matches(filter[1], r) IN SelectSeq(rs, Keep)

\* A variant of Hit: the score is the distance itself.
HitScoredByDistance(r, q) ==
  [key |-> r.key, text |-> r.text, score |-> SqDist(q, r.embedding),
   metadata |-> MetadataOf(r.metadata)]

\* score = 1.0 - distance; metadata is None when null.
Hit(r, q) ==
  [key |-> r.key, text |-> r.text, score |-> 1 - SqDist(q, r.embedding),
   metadata |-> MetadataOf(r.metadata)]

\* query().nearest_to(q).limit(limit).only_if(filter), decoded row by row.
SearchHits(rs, q, limit, filter) ==
  LET top == Take(Ranked(Filtered(rs, filter), q), limit)
  IN [i \in 1 .. Len(top) |-> Hit(top[i], q)]

\* query().select(key).only_if(starts_with).limit(limit), decoded.
ListKeys(rs, prefix, limit) ==
  LET sel == Filtered(rs, IF prefix = None THEN None ELSE Some(PrefixPredicate(prefix[1])))
      cut == IF limit = None THEN sel ELSE Take(sel, limit[1])
  IN [i \in 1 .. Len(cut) |-> cut[i].key]

\* ------------------------------------------------------------------ state

VARIABLES
  tblStatus,    \* the default table: "absent", "ok" or "corrupt" (cannot be opened)
  rows,         \* its rows, in append order
  otherExists,  \* whether the table OTHER_TABLE exists
  dirs,         \* each database path: "missing", "present" or "blocked"
  pc,           \* each caller's position in its call
  call,         \* each caller's operation and arguments
  res,          \* each caller's result, once the call is done
  log,          \* the engine calls the call has made, with their outcome
  snap,         \* the store as it was when the call started
  overlap,      \* whether a call ever started while another was in flight
  life          \* history of the default table: "none" when no store has
                \* returned success since the start or the last successful
                \* clear of it, "stored" when one has, "dropped" when one has
                \* and a drop of the table was attempted since

disk == <<tblStatus, rows, otherExists, dirs>>
vars == <<tblStatus, rows, otherExists, dirs, pc, call, res, log, snap, overlap, life>>

NoPayload == [text |-> "", embedding |-> << >>, metadata |-> None]

BlankCall ==
  [op |-> "none", key |-> << >>, payload |-> NoPayload, query |-> << >>, limit |-> 0,
   filter |-> None, prefix |-> None, optLimit |-> None, collection |-> None,
   path |-> "", dim |-> 0]

Snapshot == [status |-> tblStatus, rows |-> rows, other |-> otherExists, dirs |-> dirs]
BlankSnap == [status |-> "absent", rows |-> << >>, other |-> FALSE, dirs |-> << >>]

InitCallers ==
  /\ pc = [p \in Callers |-> "idle"]
  /\ call = [p \in Callers |-> BlankCall]
  /\ res = [p \in Callers |-> Ok]
  /\ log = [p \in Callers |-> << >>]
  /\ snap = [p \in Callers |-> BlankSnap]
  /\ overlap = FALSE

\* After LanceDBHandle::open on a fresh or an existing directory: no table of
\* ours yet; another table may be there.
Init ==
  /\ tblStatus = "absent"
  /\ rows = << >>
  /\ otherExists \in BOOLEAN
  /\ dirs = [d \in Paths |-> IF d = DB_PATH THEN "present" ELSE "missing"]
  /\ life = IF tblStatus = "absent" THEN "none" ELSE "stored"
  /\ InitCallers

\* ---------------------------------------------------------------- helpers

InFlight(p) == pc[p] \notin {"idle", "done"}
Quiet(p) == \A q \in Callers \ {p} : pc[q] = "idle"

Goto(p, l) == pc' = [pc EXCEPT ![p] = l] /\ UNCHANGED res
Finish(p, r) == pc' = [pc EXCEPT ![p] = "done"] /\ res' = [res EXCEPT ![p] = r]
\* An engine call is logged with its outcome: can says whether it succeeds when
\* no fault occurs, fail whether a fault occurs; fault marks a failure that is
\* due to the fault alone.
Logged(p, op, can, fail) ==
  log' = [log EXCEPT ![p] = Append(@, [op |-> op, ok |-> can /\ ~fail, fault |-> can /\ fail])]

\* The history after a store step that returns success when ok.
StoreReturned(ok) == life' = IF ok THEN "stored" ELSE life
\* The history after a drop of the default table that is not a successful
\* clear.
DropTried == life' = IF life = "none" THEN "none" ELSE "dropped"

\* The entry of a call: its arguments are bound and the state it starts from
\* is remembered.
Enter(p, c) ==
  /\ pc[p] = "idle"
  /\ call' = [call EXCEPT ![p] = c]
  /\ snap' = [snap EXCEPT ![p] = Snapshot]
  /\ overlap' = (overlap \/ \E q \in Callers \ {p} : InFlight(q))

\* self.connect(): ConnectionFailed on error.
Connect(p, fail, next) ==
  /\ Logged(p, "connect", TRUE, fail)
  /\ IF fail THEN Finish(p, Err("ConnectionFailed")) ELSE Goto(p, next)

\* db.table_names().execute(): TableError on error.
TableNames == (IF tblStatus = "absent" THEN {} ELSE {DEFAULT_TABLE})
                \cup (IF otherExists THEN {OTHER_TABLE} ELSE {})

\* open_table_unsafe: succeeds on a readable table.
CanOpen == tblStatus = "ok"
OpenFails(fail) == fail \/ ~CanOpen

\* A variant of OpenTableError: the open error reported as a query error.
OpenTableAsQueryError == Err("QueryError")

\* The error open_table_unsafe maps every failure to.
OpenTableError == Err("TableError")

\* ------------------------------------------------------------------ store

StoresInFlight == Cardinality({q \in Callers : InFlight(q) /\ call[q].op = "store"})

\* A variant of StoreCall: connects before it checks the length.
StoreCallConnectFirst(p, k, pl, fail) ==
  /\ Len(rows) + StoresInFlight < MaxRows
  /\ Enter(p, [BlankCall EXCEPT !.op = "store", !.key = k, !.payload = pl])
  /\ Logged(p, "connect", TRUE, fail)
  /\ IF fail THEN Finish(p, Err("ConnectionFailed"))
     ELSE IF Len(pl.embedding) # Dim THEN Finish(p, Err("InsertError"))
     ELSE Goto(p, "s_preopen")
  /\ UNCHANGED <<disk, life>>

\* Lines 128-138: the length check, then connect.
StoreCall(p, k, pl, fail) ==
  /\ Len(rows) + StoresInFlight < MaxRows
  /\ Enter(p, [BlankCall EXCEPT !.op = "store", !.key = k, !.payload = pl])
  /\ IF Len(pl.embedding) # Dim
       THEN Finish(p, Err("InsertError")) /\ UNCHANGED log
       ELSE Connect(p, fail, "s_preopen")
  /\ UNCHANGED <<disk, life>>

\* A variant of StorePreOpen: a failed open is returned as an error.
StorePreOpenPropagates(p, fail) ==
  /\ pc[p] = "s_preopen"
  /\ Logged(p, "open", CanOpen, fail)
  /\ IF OpenFails(fail) THEN Finish(p, OpenTableError) ELSE Goto(p, "s_predelete")
  /\ UNCHANGED <<disk, life, call, snap, overlap>>

\* Line 142: open the table for the delete of the old entry; skipped on error.
StorePreOpen(p, fail) ==
  /\ pc[p] = "s_preopen"
  /\ Logged(p, "open", CanOpen, fail)
  /\ Goto(p, IF OpenFails(fail) THEN "s_names" ELSE "s_predelete")
  /\ UNCHANGED <<disk, life, call, snap, overlap>>

\* A variant of StorePreDeleteRows: the old entry is not deleted.
StorePreDeleteNothing(k) == rows

\* A variant of StorePreDeleteRows: the delete removes every row.
StorePreDeleteEveryRow(k) == << >>

\* The rows the pre-upsert delete leaves.
StorePreDeleteRows(k) == DeleteRows(rows, KeyPredicate(k))

\* Lines 143-145: delete the old entry; the result is discarded.
StorePreDelete(p, fail) ==
  /\ pc[p] = "s_predelete"
  /\ LET can == tblStatus = "ok" /\ PredicateOk(KeyPredicate(call[p].key))
         bad == fail \/ ~can
     IN /\ Logged(p, "delete", can, fail)
        /\ rows' = IF bad THEN rows ELSE StorePreDeleteRows(call[p].key)
  /\ Goto(p, "s_names")
  /\ UNCHANGED <<tblStatus, otherExists, call, snap, overlap, dirs, life>>

\* Lines 162-170: list the tables and branch on the default table's presence.
StoreNames(p, fail) ==
  /\ pc[p] = "s_names"
  /\ Logged(p, "table_names", TRUE, fail)
  /\ IF fail THEN Finish(p, Err("TableError"))
     ELSE Goto(p, IF DEFAULT_TABLE \in TableNames THEN "s_open" ELSE "s_create")
  /\ UNCHANGED <<disk, life, call, snap, overlap>>

\* A variant of StoreOpen: an open error is returned, with no recovery.
StoreOpenNoRecovery(p, fail) ==
  /\ pc[p] = "s_open"
  /\ Logged(p, "open", CanOpen, fail)
  /\ IF OpenFails(fail) THEN Finish(p, OpenTableError) ELSE Goto(p, "s_add")
  /\ UNCHANGED <<disk, life, call, snap, overlap>>

\* Lines 171-183: open for the append; on error go to drop and recreate.
StoreOpen(p, fail) ==
  /\ pc[p] = "s_open"
  /\ Logged(p, "open", CanOpen, fail)
  /\ Goto(p, IF OpenFails(fail) THEN "s_drop" ELSE "s_add")
  /\ UNCHANGED <<disk, life, call, snap, overlap>>

\* Lines 173-180: append the one-row batch; InsertError on error.
StoreAdd(p, fail) ==
  /\ pc[p] = "s_add"
  /\ LET can == tblStatus = "ok"
         bad == fail \/ ~can
     IN /\ Logged(p, "add", can, fail)
        /\ rows' = IF bad THEN rows
                   ELSE Append(rows, Row(call[p].key, call[p].payload))
        /\ Finish(p, IF bad THEN Err("InsertError") ELSE Ok)
        /\ StoreReturned(~bad)
  /\ UNCHANGED <<tblStatus, otherExists, call, snap, overlap, dirs>>

\* A variant of StoreAfterDrop: a failed drop is returned as TableError.
StoreAfterDropPropagates(p, dropped) ==
  IF dropped THEN Goto(p, "s_create") ELSE Finish(p, Err("TableError"))

\* What store does with the result of the drop in its recovery path.
StoreAfterDrop(p, dropped) == Goto(p, "s_create")

\* Line 184: drop the unreadable table.  A drop that fails may have removed
\* the table or not; one of a table that is no longer there fails.
StoreDrop(p, fail, removed) ==
  /\ pc[p] = "s_drop"
  /\ LET can == tblStatus # "absent"
         bad == fail \/ ~can
         gone == IF bad THEN removed /\ can ELSE TRUE
     IN /\ Logged(p, "drop_table", can, fail)
        /\ tblStatus' = IF gone THEN "absent" ELSE tblStatus
        /\ rows' = IF gone THEN << >> ELSE rows
        /\ StoreAfterDrop(p, ~bad)
  /\ DropTried
  /\ UNCHANGED <<otherExists, call, snap, overlap, dirs>>

\* Lines 185-191 and 195-201: create the table from the one-row batch;
\* TableError on error.  Creating a table that exists is an error.
StoreCreate(p, fail) ==
  /\ pc[p] = "s_create"
  /\ LET can == tblStatus = "absent"
         bad == fail \/ ~can
     IN /\ Logged(p, "create_table", can, fail)
        /\ tblStatus' = IF bad THEN tblStatus ELSE "ok"
        /\ rows' = IF bad THEN rows ELSE <<Row(call[p].key, call[p].payload)>>
        /\ Finish(p, IF bad THEN Err("TableError") ELSE Ok)
        /\ StoreReturned(~bad)
  /\ UNCHANGED <<otherExists, call, snap, overlap, dirs>>

\* ----------------------------------------------------------------- search

\* Query vectors of the configured length, and one that is too short.
Queries == { Unit(1), Unit(2) }
BadQueries == { [j \in 1 .. Dim - 1 |-> 1] }

Limits == 1 .. MaxLimit

\* Caller-supplied filters, passed to the engine as they are.
Filters == { None, Some(KeyPredicate(<<"a">>)) }

\* Lines 215-225: the length check, then connect.
SearchCall(p, q, limit, filter, fail) ==
  /\ Enter(p, [BlankCall EXCEPT !.op = "search", !.query = q, !.limit = limit,
                                !.filter = filter])
  /\ IF Len(q) # Dim
       THEN Finish(p, Err("QueryError")) /\ UNCHANGED log
       ELSE Connect(p, fail, "q_names")
  /\ UNCHANGED <<disk, life>>

\* Lines 227-237: list the tables; an absent table is an empty result.
SearchNames(p, fail) ==
  /\ pc[p] = "q_names"
  /\ Logged(p, "table_names", TRUE, fail)
  /\ IF fail THEN Finish(p, Err("TableError"))
     ELSE IF DEFAULT_TABLE \notin TableNames THEN Finish(p, Ok)
     ELSE Goto(p, "q_open")
  /\ UNCHANGED <<disk, life, call, snap, overlap>>

\* Line 239: open the table; its error is returned as it is.
SearchOpen(p, fail) ==
  /\ pc[p] = "q_open"
  /\ Logged(p, "open", CanOpen, fail)
  /\ IF OpenFails(fail) THEN Finish(p, OpenTableError) ELSE Goto(p, "q_exec")
  /\ UNCHANGED <<disk, life, call, snap, overlap>>

\* Lines 241-305: build and run the query, decode the rows; QueryError on error.
SearchExec(p, fail) ==
  /\ pc[p] = "q_exec"
  /\ LET c == call[p]
         can == tblStatus = "ok" /\ (c.filter = None \/ PredicateOk(c.filter[1]))
         bad == fail \/ ~can
     IN /\ Logged(p, "query", can, fail)
        /\ Finish(p, IF bad THEN Err("QueryError")
                     ELSE [Ok EXCEPT !.hits = SearchHits(rows, c.query, c.limit, c.filter)])
  /\ UNCHANGED <<disk, life, call, snap, overlap>>

\* ----------------------------------------------------------------- delete

\* Line 310: connect.
DeleteCall(p, k, fail) ==
  /\ Enter(p, [BlankCall EXCEPT !.op = "delete", !.key = k])
  /\ Connect(p, fail, "d_names")
  /\ UNCHANGED <<disk, life>>

\* A variant of DeleteNames: no check of the table's presence.
DeleteNamesNoCheck(p, fail) ==
  /\ pc[p] = "d_names"
  /\ Logged(p, "table_names", TRUE, fail)
  /\ IF fail THEN Finish(p, Err("TableError")) ELSE Goto(p, "d_open")
  /\ UNCHANGED <<disk, life, call, snap, overlap>>

\* Lines 312-322: list the tables; an absent table is a no-op.
DeleteNames(p, fail) ==
  /\ pc[p] = "d_names"
  /\ Logged(p, "table_names", TRUE, fail)
  /\ IF fail THEN Finish(p, Err("TableError"))
     ELSE IF DEFAULT_TABLE \notin TableNames THEN Finish(p, Ok)
     ELSE Goto(p, "d_open")
  /\ UNCHANGED <<disk, life, call, snap, overlap>>

\* A variant of DeleteOpen: the open error reported as DeleteError.
DeleteOpenAsDeleteError(p, fail) ==
  /\ pc[p] = "d_open"
  /\ Logged(p, "open", CanOpen, fail)
  /\ IF OpenFails(fail) THEN Finish(p, Err("DeleteError")) ELSE Goto(p, "d_delete")
  /\ UNCHANGED <<disk, life, call, snap, overlap>>

\* Line 324: open the table; its error is returned as it is.
DeleteOpen(p, fail) ==
  /\ pc[p] = "d_open"
  /\ Logged(p, "open", CanOpen, fail)
  /\ IF OpenFails(fail) THEN Finish(p, OpenTableError) ELSE Goto(p, "d_delete")
  /\ UNCHANGED <<disk, life, call, snap, overlap>>

\* A variant of DeleteExec: a delete that leaves no row removes the table.
DeleteExecDropsEmptyTable(p, fail) ==
  /\ pc[p] = "d_delete"
  /\ LET pred == KeyPredicate(call[p].key)
         can == tblStatus = "ok" /\ PredicateOk(pred)
         bad == fail \/ ~can
     IN /\ Logged(p, "delete", can, fail)
        /\ rows' = IF bad THEN rows ELSE DeleteRows(rows, pred)
        /\ tblStatus' = IF ~bad /\ DeleteRows(rows, pred) = << >> THEN "absent"
                        ELSE tblStatus
        /\ Finish(p, IF bad THEN Err("DeleteError") ELSE Ok)
  /\ UNCHANGED <<otherExists, call, snap, overlap, dirs, life>>

\* Lines 326-333: the predicate delete; DeleteError on error.
DeleteExec(p, fail) ==
  /\ pc[p] = "d_delete"
  /\ LET pred == KeyPredicate(call[p].key)
         can == tblStatus = "ok" /\ PredicateOk(pred)
         bad == fail \/ ~can
     IN /\ Logged(p, "delete", can, fail)
        /\ rows' = IF bad THEN rows ELSE DeleteRows(rows, pred)
        /\ Finish(p, IF bad THEN Err("DeleteError") ELSE Ok)
  /\ UNCHANGED <<tblStatus, otherExists, call, snap, overlap, dirs, life>>

\* ------------------------------------------------------------------- list

Prefixes == { None, Some(<<"a">>), Some(<<"a", Quote>>), Some(<<Quote>>) }
OptLimits == { None } \cup { Some(n) : n \in Limits }

\* Line 342: connect.
ListCall(p, prefix, optLimit, fail) ==
  /\ Enter(p, [BlankCall EXCEPT !.op = "list", !.prefix = prefix, !.optLimit = optLimit])
  /\ Connect(p, fail, "l_names")
  /\ UNCHANGED <<disk, life>>

\* Lines 344-354: list the tables; an absent table is an empty result.
ListNames(p, fail) ==
  /\ pc[p] = "l_names"
  /\ Logged(p, "table_names", TRUE, fail)
  /\ IF fail THEN Finish(p, Err("TableError"))
     ELSE IF DEFAULT_TABLE \notin TableNames THEN Finish(p, Ok)
     ELSE Goto(p, "l_open")
  /\ UNCHANGED <<disk, life, call, snap, overlap>>

\* Line 356: open the table; its error is returned as it is.
ListOpen(p, fail) ==
  /\ pc[p] = "l_open"
  /\ Logged(p, "open", CanOpen, fail)
  /\ IF OpenFails(fail) THEN Finish(p, OpenTableError) ELSE Goto(p, "l_exec")
  /\ UNCHANGED <<disk, life, call, snap, overlap>>

\* Lines 358-395: run the key query and collect the keys; QueryError on error.
ListExec(p, fail) ==
  /\ pc[p] = "l_exec"
  /\ LET c == call[p]
         can == /\ tblStatus = "ok"
                /\ c.prefix = None \/ PredicateOk(PrefixPredicate(c.prefix[1]))
         bad == fail \/ ~can
     IN /\ Logged(p, "query", can, fail)
        /\ Finish(p, IF bad THEN Err("QueryError")
                     ELSE [Ok EXCEPT !.keys = ListKeys(rows, c.prefix, c.optLimit)])
  /\ UNCHANGED <<disk, life, call, snap, overlap>>

\* ------------------------------------------------------------------ clear

Collections == { None, Some(DEFAULT_TABLE), Some(OTHER_TABLE) }

\* A variant of TableName: the collection argument is ignored.
TableNameAlwaysDefault(collection) == DEFAULT_TABLE

\* collection.as_deref().unwrap_or(DEFAULT_TABLE)
TableName(collection) == IF collection = None THEN DEFAULT_TABLE ELSE collection[1]

\* Line 400: connect.
ClearCall(p, collection, fail) ==
  /\ Enter(p, [BlankCall EXCEPT !.op = "clear", !.collection = collection])
  /\ Connect(p, fail, "c_names")
  /\ UNCHANGED <<disk, life>>

\* Lines 403-411: list the tables; a table that is not there is a no-op.
ClearNames(p, fail) ==
  /\ pc[p] = "c_names"
  /\ Logged(p, "table_names", TRUE, fail)
  /\ IF fail THEN Finish(p, Err("TableError"))
     ELSE IF TableName(call[p].collection) \notin TableNames THEN Finish(p, Ok)
     ELSE Goto(p, "c_drop")
  /\ life' = IF ~fail /\ TableName(call[p].collection) = DEFAULT_TABLE
                    /\ DEFAULT_TABLE \notin TableNames
             THEN "none" ELSE life
  /\ UNCHANGED <<disk, call, snap, overlap>>

\* Lines 412-419: drop the named table; TableError on error.
ClearDrop(p, fail, removed) ==
  /\ pc[p] = "c_drop"
  /\ LET name == TableName(call[p].collection)
         can == name \in TableNames
         bad == fail \/ ~can
         gone == IF bad THEN removed /\ can ELSE TRUE
     IN /\ Logged(p, "drop_table", can, fail)
        /\ IF name = DEFAULT_TABLE
             THEN /\ tblStatus' = IF gone THEN "absent" ELSE tblStatus
                  /\ rows' = IF gone THEN << >> ELSE rows
                  /\ IF bad THEN DropTried ELSE life' = "none"
                  /\ UNCHANGED otherExists
             ELSE /\ otherExists' = (otherExists /\ ~gone)
                  /\ UNCHANGED <<tblStatus, rows, life>>
        /\ Finish(p, IF bad THEN Err("TableError") ELSE Ok)
  /\ UNCHANGED <<call, snap, overlap, dirs>>

\* ------------------------------------------------------------------- open

\* The embedding_dim values passed to the constructor.
OpenDims == { -1, 0, 1, Dim }

\* The handle: its two fields.
Handle(path, dim) == [db_path |-> path, embedding_dim |-> dim]

\* A variant of OpenCall: the directory is created before the dimension is
\* checked.
OpenCallMkdirFirst(p, path, dim, fail) ==
  /\ Enter(p, [BlankCall EXCEPT !.op = "open", !.path = path, !.dim = dim])
  /\ LET can == dirs[path] # "blocked"
         bad == fail \/ ~can
     IN /\ Logged(p, "create_dir_all", can, fail)
        /\ dirs' = IF bad THEN dirs ELSE [dirs EXCEPT ![path] = "present"]
        /\ IF bad THEN Finish(p, Err("ConnectionFailed"))
           ELSE IF dim <= 0 THEN Finish(p, Err("SchemaError"))
           ELSE Goto(p, "o_connect")
  /\ UNCHANGED <<tblStatus, rows, otherExists, life>>

\* Lines 95-103: the dimension check, then create_dir_all (not awaited);
\* ConnectionFailed when the directory cannot be created.
OpenCall(p, path, dim, fail) ==
  /\ Enter(p, [BlankCall EXCEPT !.op = "open", !.path = path, !.dim = dim])
  /\ IF dim <= 0
       THEN Finish(p, Err("SchemaError")) /\ UNCHANGED <<log, dirs>>
       ELSE LET can == dirs[path] # "blocked"
                bad == fail \/ ~can
            IN /\ Logged(p, "create_dir_all", can, fail)
               /\ dirs' = IF bad THEN dirs ELSE [dirs EXCEPT ![path] = "present"]
               /\ IF bad THEN Finish(p, Err("ConnectionFailed"))
                  ELSE Goto(p, "o_connect")
  /\ UNCHANGED <<tblStatus, rows, otherExists, life>>

\* Lines 106-116: connect to verify; ConnectionFailed on error, else the
\* handle.
OpenConnect(p, fail) ==
  /\ pc[p] = "o_connect"
  /\ LET can == dirs[call[p].path] = "present"
         bad == fail \/ ~can
     IN /\ Logged(p, "connect", can, fail)
        /\ Finish(p, IF bad THEN Err("ConnectionFailed")
                     ELSE [Ok EXCEPT !.handle = Some(Handle(call[p].path, call[p].dim))])
  /\ UNCHANGED <<disk, life, call, snap, overlap>>

\* ------------------------------------------------- callers and environment

\* The caller takes the result; the handle keeps nothing of the call.
Return(p) ==
  /\ pc[p] = "done"
  /\ pc' = [pc EXCEPT ![p] = "idle"]
  /\ call' = [call EXCEPT ![p] = BlankCall]
  /\ res' = [res EXCEPT ![p] = Ok]
  /\ log' = [log EXCEPT ![p] = << >>]
  /\ snap' = [snap EXCEPT ![p] = BlankSnap]
  /\ UNCHANGED <<disk, life, overlap>>

\* The process is killed while the call of p is in flight: the call is gone
\* with no result and the store stays as the steps taken so far left it.
Kill(p) ==
  /\ InFlight(p)
  /\ pc' = [pc EXCEPT ![p] = "idle"]
  /\ call' = [call EXCEPT ![p] = BlankCall]
  /\ res' = [res EXCEPT ![p] = Ok]
  /\ log' = [log EXCEPT ![p] = << >>]
  /\ snap' = [snap EXCEPT ![p] = BlankSnap]
  /\ UNCHANGED <<disk, life, overlap>>

\* A process killed in a write: the table is left present but unreadable
\* (lines 182-183).  The next process starts with no call in flight.
Corrupt ==
  /\ tblStatus = "ok"
  /\ \A p \in Callers : pc[p] = "idle"
  /\ tblStatus' = "corrupt"
  /\ UNCHANGED <<rows, otherExists, dirs, life, pc, call, res, log, snap, overlap>>

\* --------------------------------------------------------- specifications

\* One call at a time: a call starts when no other caller is in a call.
\* Every engine call may fail.
Next ==
  \/ \E p \in {Main} :
       \/ \E k \in Keys, pl \in Payloads \cup BadPayloads, fail \in BOOLEAN :
            Quiet(p) /\ StoreCall(p, k, pl, fail)
       \/ \E fail \in BOOLEAN : StorePreOpen(p, fail)
       \/ \E fail \in BOOLEAN : StorePreDelete(p, fail)
       \/ \E fail \in BOOLEAN : StoreNames(p, fail)
       \/ \E fail \in BOOLEAN : StoreOpen(p, fail)
       \/ \E fail \in BOOLEAN : StoreAdd(p, fail)
       \/ \E fail \in BOOLEAN, removed \in BOOLEAN : StoreDrop(p, fail, removed)
       \/ \E fail \in BOOLEAN : StoreCreate(p, fail)
       \/ \E q \in Queries \cup BadQueries, limit \in Limits, filter \in Filters,
             fail \in BOOLEAN :
            Quiet(p) /\ SearchCall(p, q, limit, filter, fail)
       \/ \E fail \in BOOLEAN : SearchNames(p, fail)
       \/ \E fail \in BOOLEAN : SearchOpen(p, fail)
       \/ \E fail \in BOOLEAN : SearchExec(p, fail)
       \/ \E k \in Keys, fail \in BOOLEAN : Quiet(p) /\ DeleteCall(p, k, fail)
       \/ \E fail \in BOOLEAN : DeleteNames(p, fail)
       \/ \E fail \in BOOLEAN : DeleteOpen(p, fail)
       \/ \E fail \in BOOLEAN : DeleteExec(p, fail)
       \/ \E prefix \in Prefixes, optLimit \in OptLimits, fail \in BOOLEAN :
            Quiet(p) /\ ListCall(p, prefix, optLimit, fail)
       \/ \E fail \in BOOLEAN : ListNames(p, fail)
       \/ \E fail \in BOOLEAN : ListOpen(p, fail)
       \/ \E fail \in BOOLEAN : ListExec(p, fail)
       \/ \E collection \in Collections, fail \in BOOLEAN :
            Quiet(p) /\ ClearCall(p, collection, fail)
       \/ \E fail \in BOOLEAN : ClearNames(p, fail)
       \/ \E fail \in BOOLEAN, removed \in BOOLEAN : ClearDrop(p, fail, removed)
       \/ Return(p)
  \/ Corrupt

Spec == Init /\ [][Next]_vars

\* The store a set of concurrent calls starts from: no table, or a readable
\* table with at most one row.
InitConc ==
  /\ tblStatus \in {"absent", "ok"}
  /\ rows \in { << >> } \cup (IF tblStatus = "ok" THEN { <<r>> : r \in Rows } ELSE {})
  /\ otherExists = FALSE
  /\ dirs = [d \in Paths |-> IF d = DB_PATH THEN "present" ELSE "missing"]
  /\ life = IF tblStatus = "absent" THEN "none" ELSE "stored"
  /\ InitCallers

\* Concurrent callers, each making one store or delete call with a valid
\* embedding; no engine call fails.
NextConc ==
  \E p \in Callers :
    \/ \E k \in Keys, pl \in Payloads : StoreCall(p, k, pl, FALSE)
    \/ StorePreOpen(p, FALSE)
    \/ StorePreDelete(p, FALSE)
    \/ StoreNames(p, FALSE)
    \/ StoreOpen(p, FALSE)
    \/ StoreAdd(p, FALSE)
    \/ StoreCreate(p, FALSE)
    \/ \E k \in Keys : DeleteCall(p, k, FALSE)
    \/ DeleteNames(p, FALSE)
    \/ DeleteOpen(p, FALSE)
    \/ DeleteExec(p, FALSE)

SpecConc == InitConc /\ [][NextConc]_vars

\* A single writer: store and delete calls, one at a time, each of which may
\* be killed at any step.  Every engine call may fail except the predicate
\* delete on a readable table (lines 143-145 and 326-328).
NextKill ==
  \/ \E p \in {Main} :
       \/ \E k \in Keys, pl \in Payloads, fail \in BOOLEAN :
            Quiet(p) /\ StoreCall(p, k, pl, fail)
       \/ \E fail \in BOOLEAN : StorePreOpen(p, fail)
       \/ StorePreDelete(p, FALSE)
       \/ \E fail \in BOOLEAN : StoreNames(p, fail)
       \/ \E fail \in BOOLEAN : StoreOpen(p, fail)
       \/ \E fail \in BOOLEAN : StoreAdd(p, fail)
       \/ \E fail \in BOOLEAN, removed \in BOOLEAN : StoreDrop(p, fail, removed)
       \/ \E fail \in BOOLEAN : StoreCreate(p, fail)
       \/ \E k \in Keys, fail \in BOOLEAN : Quiet(p) /\ DeleteCall(p, k, fail)
       \/ \E fail \in BOOLEAN : DeleteNames(p, fail)
       \/ \E fail \in BOOLEAN : DeleteOpen(p, fail)
       \/ DeleteExec(p, FALSE)
       \/ Return(p)
       \/ Kill(p)
  \/ Corrupt

SpecKill == Init /\ [][NextKill]_vars

\* Before construction: each path is missing, present, or cannot be created.
InitOpen ==
  /\ tblStatus = "absent"
  /\ rows = << >>
  /\ otherExists = FALSE
  /\ dirs \in [Paths -> {"missing", "present", "blocked"}]
  /\ life = "none"
  /\ InitCallers

\* Constructor calls, one at a time; create_dir_all and connect may fail.
NextOpen ==
  \E p \in {Main} :
    \/ \E path \in Paths, dim \in OpenDims, fail \in BOOLEAN :
         Quiet(p) /\ OpenCall(p, path, dim, fail)
    \/ \E fail \in BOOLEAN : OpenConnect(p, fail)
    \/ Return(p)

SpecOpen == InitOpen /\ [][NextOpen]_vars

\* ================================================================ claims

CountKey(rs, k) ==
  LET Is(r) == r.key = k IN Len(SelectSeq(rs, Is))

Occurrences(s, x) == Cardinality({i \in 1 .. Len(s) : s[i] = x})

Done(p, op) == pc[p] = "done" /\ call[p].op = op
Quiescent == \A p \in Callers : ~InFlight(p)

Failed(p, op) == \E i \in 1 .. Len(log[p]) : log[p][i].op = op /\ ~log[p][i].ok
Succeeded(p, op) == \E i \in 1 .. Len(log[p]) : log[p][i].op = op /\ log[p][i].ok
\* No fault occurred in an engine call of the call.
NoFault(p) == \A i \in 1 .. Len(log[p]) : ~log[p][i].fault
DiskAsAtEntry(p) == Snapshot = snap[p]

\* ---- C1 (as stated; violated).  Between calls made one at a time, the
\* default table holds at most one record for every key.
C1_AtMostOnePerKey ==
  Quiescent => \A k \in Keys : CountKey(rows, k) <= 1

\* ---- C2 (as stated; violated).  When store(k, ...) returns success on a
\* table that held k with other values, list(None, None) holds k exactly once
\* and a search for k returns exactly the record of this call.
C2_UpsertLaterWins ==
  \A p \in Callers :
    LET k == call[p].key
        new == call[p].payload
    IN ( /\ Done(p, "store") /\ res[p] = Ok
         /\ snap[p].status = "ok"
         /\ \E i \in 1 .. Len(snap[p].rows) :
              snap[p].rows[i].key = k /\ snap[p].rows[i] # Row(k, new) )
       => /\ Occurrences(ListKeys(rows, None, None), k) = 1
          /\ SearchHits(rows, new.embedding, MaxRows, Some(KeyPredicate(k)))
               = << [key |-> k, text |-> new.text, score |-> 1,
                     metadata |-> new.metadata] >>

\* ---- C3.  A store on a table that is present but cannot be opened, with no
\* fault in its engine calls, drops and recreates the table, returns
\* success, and leaves a readable table holding exactly the record written.
C3_RecoveryRebuilds ==
  \A p \in Callers :
    ( /\ Done(p, "store")
      /\ snap[p].status = "corrupt"
      /\ Len(call[p].payload.embedding) = Dim
      /\ NoFault(p) )
    => /\ res[p] = Ok
       /\ Succeeded(p, "drop_table") /\ Succeeded(p, "create_table")
       /\ tblStatus = "ok"
       /\ rows = << Row(call[p].key, call[p].payload) >>

\* C3's case: recovery from an unreadable table that held two records, one of
\* them under another key; both are gone.
C3_Witness ==
  \E p \in Callers :
    /\ Done(p, "store") /\ res[p] = Ok
    /\ snap[p].status = "corrupt" /\ Len(snap[p].rows) = 2
    /\ \E i \in 1 .. 2 : snap[p].rows[i].key # call[p].key
    /\ tblStatus = "ok" /\ Len(rows) = 1 /\ rows[1].key = call[p].key

\* ---- C4.  With no engine fault, a key gets more than one record only when
\* calls were in flight together: an interleaving of two store calls between
\* the delete step of one and its append.
C4_DuplicatesOnlyByInterleaving ==
  (\E k \in Keys : CountKey(rows, k) > 1) => overlap

\* C4's case: two concurrent store calls on one key have both returned
\* success and the key has two records.
C4_Witness ==
  /\ \A p \in Callers : Done(p, "store") /\ res[p] = Ok
  /\ \E k \in Keys : (\A p \in Callers : call[p].key = k) /\ CountKey(rows, k) = 2

\* ---- C5 (as stated; violated).  Concurrent store calls on distinct keys
\* with no engine fault all return success and leave each key exactly one
\* record.
C5_ConcurrentDistinctKeysSucceed ==
  ( /\ \A p \in Callers : Done(p, "store")
    /\ \A p, q \in Callers : p # q => call[p].key # call[q].key )
  => \A p \in Callers : res[p] = Ok /\ CountKey(rows, call[p].key) = 1

\* ---- C6.  A store whose embedding, or a search whose query vector, is not
\* of the configured length fails with InsertError, respectively QueryError,
\* with no engine call made and the store unchanged.
C6_LengthCheckBeforeIO ==
  \A p \in Callers :
    /\ (Done(p, "store") /\ Len(call[p].payload.embedding) # Dim)
         => res[p] = Err("InsertError") /\ log[p] = << >> /\ DiskAsAtEntry(p)
    /\ (Done(p, "search") /\ Len(call[p].query) # Dim)
         => res[p] = Err("QueryError") /\ log[p] = << >> /\ DiskAsAtEntry(p)

\* C6's case: a store with a wrong-length embedding has returned, on a table
\* that holds a record.
C6_Witness ==
  \E p \in Callers :
    /\ Done(p, "store") /\ Len(call[p].payload.embedding) # Dim
    /\ res[p].kind = "InsertError"
    /\ tblStatus = "ok" /\ Len(rows) >= 1

\* ---- C7.  With the default table absent and no engine fault, search (of a
\* vector of the configured length) and list return an empty list, delete
\* and clear return success, and the table is still absent; delete of a key
\* with no record in a readable table returns success and changes no row.
C7_AbsentIsEmptyOrNoOp ==
  \A p \in Callers :
    /\ ( /\ pc[p] = "done" /\ snap[p].status = "absent" /\ NoFault(p)
         /\ call[p].op \in {"search", "list", "delete", "clear"}
         /\ call[p].op = "search" => Len(call[p].query) = Dim )
       => res[p] = Ok /\ tblStatus = "absent" /\ rows = << >>
    /\ ( /\ Done(p, "delete") /\ snap[p].status = "ok" /\ NoFault(p)
         /\ CountKey(snap[p].rows, call[p].key) = 0 )
       => res[p] = Ok /\ tblStatus = "ok" /\ rows = snap[p].rows

\* C7's case: a delete has returned success on an absent table.
C7_Witness ==
  \E p \in Callers :
    /\ Done(p, "delete") /\ snap[p].status = "absent"
    /\ res[p] = Ok /\ Succeeded(p, "table_names")

\* ---- C8 (as stated; violated).  A search whose table open or query fails
\* returns QueryError.
C8_SearchFailuresAreQueryError ==
  \A p \in Callers :
    (Done(p, "search") /\ (Failed(p, "open") \/ Failed(p, "query")))
      => res[p].kind = "QueryError"

\* ---- C8 (amended).  search returns QueryError for a query vector of the
\* wrong length and for a failed query; a failed open of the table is
\* returned as TableError, like a failed table listing, and a failed connect
\* as ConnectionFailed.
C8_SearchErrorKinds ==
  \A p \in Callers :
    Done(p, "search") =>
      res[p].kind =
        IF Len(call[p].query) # Dim THEN "QueryError"
        ELSE IF Failed(p, "connect") THEN "ConnectionFailed"
        ELSE IF Failed(p, "table_names") THEN "TableError"
        ELSE IF Failed(p, "open") THEN "TableError"
        ELSE IF Failed(p, "query") THEN "QueryError"
        ELSE "Ok"

\* C8's case: a search on a table that is present but cannot be opened has
\* returned TableError.
C8_Witness ==
  \E p \in Callers :
    /\ Done(p, "search") /\ snap[p].status = "corrupt"
    /\ Failed(p, "open") /\ res[p].kind = "TableError"

\* ---- C9 (as stated; violated).  Once the listing has found the default
\* table, every failure of delete is a DeleteError.
C9_DeleteFailuresAreDeleteError ==
  \A p \in Callers :
    (Done(p, "delete") /\ Succeeded(p, "table_names") /\ snap[p].status # "absent"
       /\ res[p] # Ok)
      => res[p].kind = "DeleteError"

\* ---- C9 (amended).  delete returns DeleteError when the predicate delete
\* fails; a failed open of the existing table is returned as TableError, like
\* a failed table listing, and a failed connect as ConnectionFailed.
C9_DeleteErrorKinds ==
  \A p \in Callers :
    Done(p, "delete") =>
      res[p].kind =
        IF Failed(p, "connect") THEN "ConnectionFailed"
        ELSE IF Failed(p, "table_names") THEN "TableError"
        ELSE IF Failed(p, "open") THEN "TableError"
        ELSE IF Failed(p, "delete") THEN "DeleteError"
        ELSE "Ok"

\* C9's case: a delete on a table that is present but cannot be opened has
\* returned TableError.
C9_Witness ==
  \E p \in Callers :
    /\ Done(p, "delete") /\ snap[p].status = "corrupt"
    /\ Failed(p, "open") /\ res[p].kind = "TableError"

OtherKeys(rs, k) ==
  LET Differs(r) == r.key # k IN SelectSeq(rs, Differs)

\* ---- C11.  When delete(k) has returned success, made with no other call in
\* flight, the table is as present as it was, no record has key k, a listing
\* of all keys does not hold k, and the records under other keys are the
\* ones of before, unchanged and in their order.
C11_DeleteRemovesOnlyKey ==
  \A p \in Callers :
    (Done(p, "delete") /\ res[p] = Ok)
      => /\ tblStatus = snap[p].status
         /\ otherExists = snap[p].other
         /\ CountKey(rows, call[p].key) = 0
         /\ Occurrences(ListKeys(rows, None, None), call[p].key) = 0
         /\ rows = OtherKeys(snap[p].rows, call[p].key)

\* C11's case: a delete has returned success on a table that held its key
\* and another key; the table is still there with the other record.
C11_Witness ==
  \E p \in Callers :
    /\ Done(p, "delete") /\ res[p] = Ok
    /\ snap[p].status = "ok" /\ Len(snap[p].rows) >= 2
    /\ CountKey(snap[p].rows, call[p].key) >= 1
    /\ tblStatus = "ok" /\ Len(rows) >= 1

\* The keys that have a record in rs and begin with the prefix, if one is given.
MatchingKeys(rs, prefix) ==
  { k \in Keys : CountKey(rs, k) >= 1 /\ (prefix = None \/ IsPrefix(prefix[1], k)) }

Min(a, b) == IF a < b THEN a ELSE b

\* ---- C12 (as stated; violated).  A list that returns success on a readable
\* table returns stored keys that begin with the prefix (all stored keys with
\* no prefix), none other and each once; with no limit all of them, with
\* limit n the smaller of n and their number.
C12_ListExactlyMatchingKeys ==
  \A p \in Callers :
    (Done(p, "list") /\ res[p].kind = "Ok" /\ snap[p].status = "ok") =>
      LET keys == res[p].keys
          matching == MatchingKeys(rows, call[p].prefix)
          n == Cardinality(matching)
      IN /\ \A i \in 1 .. Len(keys) : keys[i] \in matching
         /\ \A k \in matching : Occurrences(keys, k) <= 1
         /\ Len(keys) = IF call[p].optLimit = None THEN n
                        ELSE Min(call[p].optLimit[1], n)

\* ---- C13.  A search that returns success returns min(limit, number of
\* records satisfying the filter) results; each is a record satisfying the
\* filter with score = 1 - distance, returned no more often than it is
\* stored; no record left out is nearer than one returned; the results are in
\* ascending distance (descending score); so a record whose embedding is the
\* query vector comes before every result at a greater distance.
C13_SearchNearestInOrder ==
  \A p \in Callers :
    (Done(p, "search") /\ res[p].kind = "Ok") =>
      LET q == call[p].query
          hits == res[p].hits
          cand == Filtered(rows, call[p].filter)
          Dist(r) == SqDist(q, r.embedding)
          AsHit(r) == [key |-> r.key, text |-> r.text, score |-> 1 - Dist(r),
                       metadata |-> MetadataOf(r.metadata)]
          Stored(h) == {j \in 1 .. Len(cand) : AsHit(cand[j]) = h}
      IN /\ Len(hits) = Min(call[p].limit, Len(cand))
         /\ \A i \in 1 .. Len(hits) :
              /\ Stored(hits[i]) # {}
              /\ Occurrences(hits, hits[i]) <= Cardinality(Stored(hits[i]))
              /\ Cardinality({j \in 1 .. Len(cand) : 1 - Dist(cand[j]) > hits[i].score})
                   <= i - 1
         /\ \A i, j \in 1 .. Len(hits) : i < j => hits[i].score >= hits[j].score
         /\ (\E j \in 1 .. Len(cand) : Dist(cand[j]) = 0) =>
              /\ Len(hits) >= 1 /\ hits[1].score = 1
              /\ \A i, j \in 1 .. Len(hits) :
                   (hits[i].score = 1 /\ hits[j].score < 1) => i < j

\* C13's case: a search with a limit smaller than the number of records, with
\* a record at distance 0 stored after one at a greater distance, has
\* returned the nearest records first.
C13_Witness ==
  \E p \in Callers :
    /\ Done(p, "search") /\ res[p].kind = "Ok"
    /\ Len(rows) > call[p].limit /\ Len(res[p].hits) = 2
    /\ SqDist(call[p].query, rows[1].embedding) > 0
    /\ res[p].hits[1].score = 1 /\ res[p].hits[2].score < 1

\* ---- C14.  Metadata round trip.  Right after a store has returned success,
\* a search for its key returns the record it wrote with the metadata it was
\* given; and every result of every search carries the metadata that was
\* stored with its record (the payload its text belongs to): None comes back
\* as None, never as the empty string.
C14_MetadataRoundTrip ==
  \A p \in Callers :
    /\ (Done(p, "store") /\ res[p] = Ok) =>
         LET pl == call[p].payload
             hits == SearchHits(rows, pl.embedding, MaxRows,
                                Some(KeyPredicate(call[p].key)))
         IN /\ \E i \in 1 .. Len(hits) :
                 hits[i].text = pl.text /\ hits[i].metadata = pl.metadata
            /\ \A i \in 1 .. Len(hits) :
                 hits[i].text = pl.text => hits[i].metadata = pl.metadata
    /\ (Done(p, "search") /\ res[p].kind = "Ok") =>
         \A i \in 1 .. Len(res[p].hits) :
           /\ \E pl \in Payloads :
                pl.text = res[p].hits[i].text /\ pl.metadata = res[p].hits[i].metadata
           /\ res[p].hits[i].metadata # Some("")

\* C14's case: a search has returned a record stored with no metadata and one
\* stored with metadata.
C14_Witness ==
  \E p \in Callers :
    /\ Done(p, "search") /\ res[p].kind = "Ok" /\ Len(res[p].hits) = 2
    /\ \E i, j \in 1 .. 2 :
         res[p].hits[i].metadata = None /\ res[p].hits[j].metadata = Some("m")

\* ---- C15.  clear drops the named table and nothing else.  When clear(None)
\* (or clear of the default name) has returned success, the default table is
\* absent, a listing of it is empty, and the other table is as it was.  A
\* clear of another collection, whatever it returns, leaves the default table
\* and its records as they were; when it returns success that collection is
\* gone.
C15_ClearDropsNamedTableOnly ==
  \A p \in Callers :
    Done(p, "clear") =>
      IF call[p].collection \in {None, Some(DEFAULT_TABLE)}
        THEN res[p] = Ok =>
               /\ tblStatus = "absent" /\ rows = << >>
               /\ ListKeys(rows, None, None) = << >>
               /\ DEFAULT_TABLE \notin TableNames
               /\ otherExists = snap[p].other
        ELSE /\ tblStatus = snap[p].status /\ rows = snap[p].rows
             /\ res[p] = Ok => OTHER_TABLE \notin TableNames

\* C15's case: clear(None) has returned success on a store that held records
\* in the default table and another table; only the default table is gone.
C15_Witness ==
  \E p \in Callers :
    /\ Done(p, "clear") /\ res[p] = Ok /\ call[p].collection = None
    /\ snap[p].status = "ok" /\ Len(snap[p].rows) >= 1 /\ snap[p].other
    /\ tblStatus = "absent" /\ otherExists

\* C15's other case: a clear of another collection has returned success and
\* the default table still holds its records.
C15_WitnessOther ==
  \E p \in Callers :
    /\ Done(p, "clear") /\ res[p] = Ok /\ call[p].collection = Some(OTHER_TABLE)
    /\ snap[p].other /\ ~otherExists
    /\ tblStatus = "ok" /\ Len(rows) >= 1

\* ---- C16.  open with embedding_dim <= 0 returns SchemaError with no I/O:
\* no create_dir_all, no connect, every directory as it was.  With a
\* positive dimension a failed create_dir_all or a failed connect returns
\* ConnectionFailed; no error carries a handle, and a handle is returned only
\* after both succeeded, with the path and dimension given.
C16_OpenValidatesBeforeIO ==
  \A p \in Callers :
    Done(p, "open") =>
      /\ call[p].dim <= 0 =>
           res[p] = Err("SchemaError") /\ log[p] = << >> /\ dirs = snap[p].dirs
      /\ (call[p].dim > 0 /\ (Failed(p, "create_dir_all") \/ Failed(p, "connect"))) =>
           res[p] = Err("ConnectionFailed")
      /\ res[p].kind # "Ok" => res[p].handle = None
      /\ res[p].kind = "Ok" =>
           /\ call[p].dim > 0
           /\ Succeeded(p, "create_dir_all") /\ Succeeded(p, "connect")
           /\ dirs[call[p].path] = "present"
           /\ res[p].handle = Some(Handle(call[p].path, call[p].dim))

\* C16's case: open with dimension 0 on a missing directory has returned
\* SchemaError and the directory is still missing.
C16_Witness ==
  \E p \in Callers :
    /\ Done(p, "open") /\ call[p].dim = 0
    /\ res[p].kind = "SchemaError" /\ snap[p].dirs[call[p].path] = "missing"
    /\ dirs[call[p].path] = "missing"

\* C16's other case: the directory was created and the connect failed.
C16_WitnessConnect ==
  \E p \in Callers :
    /\ Done(p, "open") /\ call[p].dim > 0
    /\ snap[p].dirs[call[p].path] = "missing" /\ dirs[call[p].path] = "present"
    /\ Failed(p, "connect") /\ res[p] = Err("ConnectionFailed")

\* The pre-upsert step of a store call failed: its open of the table (the
\* second engine call) or its predicate delete (the third).
PreUpsertFailed(p) ==
  /\ Len(log[p]) >= 2
  /\ \/ ~log[p][2].ok
     \/ Len(log[p]) >= 3 /\ log[p][3].op = "delete" /\ ~log[p][3].ok

\* ---- C17.  The pre-upsert delete is best-effort.  A store with a valid
\* embedding whose connect succeeded always goes on to the table listing,
\* whether the pre-upsert open and delete succeeded or not, and its result is
\* that of the later steps alone: TableError when the listing fails,
\* otherwise the result of the append (InsertError) or of the create
\* (TableError) it ends with; on success the new record is the last row.
C17_PreDeleteIsBestEffort ==
  \A p \in Callers :
    ( /\ Done(p, "store") /\ Len(call[p].payload.embedding) = Dim
      /\ Succeeded(p, "connect") ) =>
      LET last == log[p][Len(log[p])]
      IN /\ Succeeded(p, "table_names") \/ Failed(p, "table_names")
         /\ ~Failed(p, "table_names") => last.op \in {"add", "create_table"}
         /\ res[p].kind =
              IF Failed(p, "table_names") THEN "TableError"
              ELSE IF last.ok THEN "Ok"
              ELSE IF last.op = "add" THEN "InsertError"
              ELSE "TableError"
         /\ res[p] = Ok =>
              /\ tblStatus = "ok" /\ rows # << >>
              /\ rows[Len(rows)] = Row(call[p].key, call[p].payload)

\* C17's case: the predicate delete of the pre-upsert step failed on a
\* readable table that held the key, and store went on to append and
\* returned success.
C17_Witness ==
  \E p \in Callers :
    /\ Done(p, "store") /\ res[p] = Ok
    /\ PreUpsertFailed(p) /\ log[p][2].ok
    /\ CountKey(snap[p].rows, call[p].key) >= 1
    /\ log[p][Len(log[p])].op = "add"

RowSet(rs) == { rs[i] : i \in 1 .. Len(rs) }

\* ---- C18 (as stated; violated).  When a store on a readable table returns
\* an error, the table holds the records it held when the call started, the
\* previous record of the key included.
C18_FailedStoreHasNoEffect ==
  \A p \in Callers :
    (Done(p, "store") /\ res[p] # Ok /\ snap[p].status = "ok")
      => RowSet(rows) = RowSet(snap[p].rows)

TableExists == tblStatus # "absent"

\* In a delete, search or list call, at any step, the default table is as
\* present as when the call started.
ReadersKeepTable ==
  \A p \in Callers :
    (pc[p] # "idle" /\ call[p].op \in {"delete", "search", "list"})
      => tblStatus = snap[p].status

\* ---- C19 (as stated; violated).  With one call at a time, the default
\* table exists exactly when a store has returned success since the start or
\* since the last successful clear of the default table; delete, search and
\* list neither create nor drop it.
C19_TableExistsIffStored ==
  /\ TableExists <=> life # "none"
  /\ ReadersKeepTable

\* ---- C19 (amended).  With one call at a time, the default table exists only
\* if a store has returned success since the start or since the last
\* successful clear of it, and it does exist when, since that store, no drop
\* of it was attempted (by the recovery path of a store or by a clear that
\* failed); delete, search and list neither create nor drop it.
C19_TableLifecycle ==
  /\ TableExists => life # "none"
  /\ life = "stored" => TableExists
  /\ ReadersKeepTable

\* C19's case: a delete has removed the last record; the table exists, empty.
C19_Witness ==
  \E p \in Callers :
    /\ Done(p, "delete") /\ res[p] = Ok
    /\ snap[p].status = "ok" /\ Len(snap[p].rows) = 1
    /\ tblStatus = "ok" /\ rows = << >> /\ life = "stored"

\* C19's other case: the recovery path of a store dropped the unreadable
\* table and the recreate failed: the table is absent although a store
\* succeeded since the last clear.
C19_WitnessRecoveryDrop ==
  \E p \in Callers :
    /\ Done(p, "store") /\ res[p].kind = "TableError"
    /\ Succeeded(p, "drop_table") /\ Failed(p, "create_table")
    /\ ~TableExists /\ life = "dropped"

\* For every key, prefix and stored key of AllKeys the predicate text is
\* well-formed, the key predicate matches a record exactly when its key is
\* the key, and the prefix predicate exactly when its key starts with the
\* prefix.
EscapingIsExact ==
  \A k \in AllKeys :
    /\ PredicateOk(KeyPredicate(k)) /\ PredicateOk(PrefixPredicate(k))
    /\ \A k2 \in AllKeys :
         /\ Matches(KeyPredicate(k), [key |-> k2]) <=> k2 = k
         /\ Matches(PrefixPredicate(k), [key |-> k2]) <=> IsPrefix(k, k2)

\* The engine call op of the call of p was well-formed: it succeeded or
\* failed by a fault alone.
WellFormed(p, op) ==
  \A i \in 1 .. Len(log[p]) : log[p][i].op = op => (log[p][i].ok \/ log[p][i].fault)

\* ---- C20.  Quotes in keys and prefixes are doubled, so the predicates of
\* store, delete and list are never malformed and match exactly: for every
\* key and prefix over a letter and the quote (EscapingIsExact), and in the
\* calls made: a delete removes the records of its key and no other, the
\* pre-upsert delete of a store that goes on to append likewise, and a list
\* returns keys that start with its prefix, one for every such record when
\* no limit is given.
C20_PredicatesMatchExactly ==
  /\ EscapingIsExact
  /\ \A p \in Callers :
       /\ Done(p, "delete") =>
            /\ WellFormed(p, "delete")
            /\ Succeeded(p, "delete") => rows = OtherKeys(snap[p].rows, call[p].key)
       /\ Done(p, "store") =>
            /\ WellFormed(p, "delete")
            /\ (Succeeded(p, "delete") /\ Succeeded(p, "add")) =>
                 rows = Append(OtherKeys(snap[p].rows, call[p].key),
                               Row(call[p].key, call[p].payload))
       /\ (Done(p, "list") /\ call[p].prefix # None) =>
            /\ WellFormed(p, "query")
            /\ res[p].kind = "Ok" =>
                 LET Starts(r) == IsPrefix(call[p].prefix[1], r.key)
                 IN /\ \A i \in 1 .. Len(res[p].keys) :
                         IsPrefix(call[p].prefix[1], res[p].keys[i])
                    /\ call[p].optLimit = None =>
                         Len(res[p].keys) = Len(SelectSeq(rows, Starts))

\* C20's case: a delete of the key with a quote has returned success on a
\* table that held that key and the key without the quote; only the record
\* of the key with the quote is gone.
C20_Witness ==
  \E p \in Callers :
    /\ Done(p, "delete") /\ res[p] = Ok /\ call[p].key = <<"a", Quote>>
    /\ CountKey(snap[p].rows, <<"a", Quote>>) >= 1
    /\ CountKey(snap[p].rows, <<"a">>) >= 1
    /\ CountKey(rows, <<"a", Quote>>) = 0
    /\ CountKey(rows, <<"a">>) = CountKey(snap[p].rows, <<"a">>)

\* The call of p made an engine call op.
Called(p, op) == \E i \in 1 .. Len(log[p]) : log[p][i].op = op

\* ---- C21.  Frame.  A store that has returned success, made with no other
\* call in flight on a table that was readable when it started and could be
\* opened for the append (no drop and recreate), leaves the records under
\* other keys as they were, in their order, and the table readable.  In a
\* search or list call, at every step, the store is as it was when the call
\* started.
C21_StoreSearchListFrame ==
  \A p \in Callers :
    /\ ( /\ Done(p, "store") /\ res[p] = Ok
         /\ snap[p].status = "ok" /\ ~Called(p, "drop_table") )
       => /\ OtherKeys(rows, call[p].key) = OtherKeys(snap[p].rows, call[p].key)
          /\ tblStatus = "ok" /\ otherExists = snap[p].other
    /\ (pc[p] # "idle" /\ call[p].op \in {"search", "list"})
       => DiskAsAtEntry(p)

\* C21's case: a store has replaced the record of its key in a table that
\* also held a record under another key; that record is still there.
C21_Witness ==
  \E p \in Callers :
    /\ Done(p, "store") /\ res[p] = Ok /\ snap[p].status = "ok"
    /\ Succeeded(p, "delete") /\ Succeeded(p, "add")
    /\ CountKey(snap[p].rows, call[p].key) = 1
    /\ Len(snap[p].rows) = 2 /\ Len(rows) = 2
    /\ OtherKeys(rows, call[p].key) # << >>

\* C21's other case: a search has returned results from a table of two
\* records, and the table is as it was.
C21_WitnessSearch ==
  \E p \in Callers :
    /\ Done(p, "search") /\ res[p].kind = "Ok" /\ Len(res[p].hits) = 2
    /\ rows = snap[p].rows /\ Len(rows) = 2

\* ---- C22 (as stated; violated).  With a single writer and a predicate
\* delete that does not fail on a readable table, every key has at most one
\* record in every state: between calls, at every step of a store, and after
\* a kill at any step.
C22_AtMostOneAtEveryStep ==
  \A k \in Keys : CountKey(rows, k) <= 1

====
